---- MODULE Spec2Model ----
(***************************************************************************)
(* Rock-Paper-Scissors-Plus: the game session state machine of             *)
(* game_state.py, driven by the tool functions of referee_agent.py (the    *)
(* command-line referee of main.py) and by the HTTP handlers of app.py.    *)
(***************************************************************************)
EXTENDS Integers, Sequences, FiniteSets, TLC

VARIABLES
    mode,             \* which program runs: "cli" (main.py) or "web" (app.py)
    heap,             \* the live GameState objects, by object identity
    game_state,       \* referee_agent.game_state: the module global (an object identity)
    main_game_state,  \* main.game_state: the name main.py imported (an object identity)
    game_sessions,    \* app.game_sessions: session id -> GameState object identity
    session,          \* the Flask session cookie of each client: its 'session_id'
    pc,               \* the position of run_game in its loops
    call,             \* the last tool call or request: its input and the session it found
    ret,              \* the value returned by the last tool call or HTTP handler
    tally             \* per object: the draw rounds and invalid attempts it has seen

vars ==
    <<mode, heap, game_state, main_game_state, game_sessions, session, pc, call, ret, tally>>

----------------------------------------------------------------------------
(* Bounds of the model. *)

\* Round attempts are explored while the live sessions together have seen fewer
\* than this many (the code itself sets no limit on round_number).
MaxRounds == 4

\* The same, where all four tools of the referee are explored.
MaxToolRounds == 3

\* The same, where the failures of the language model are explored: for the
\* tool calls of the command line, and for the requests of the web application.
MaxServiceRounds == 3

MaxCommentedRounds == 2

\* The same, where two clients of the web application are explored.
MaxClientRounds == 2

\* The calls of the language model whose outcome is drawn for one request.
MaxAttempts == 4

\* Round attempts explored where the two implementations of a round run side by side.
MaxPairedRounds == 4

----------------------------------------------------------------------------
(* Strings are sequences of characters, so that str.lower and str.strip are *)
(* computed rather than assumed.                                            *)

UpperCase == <<"A","B","C","D","E","F","G","H","I","J","K","L","M",
               "N","O","P","Q","R","S","T","U","V","W","X","Y","Z">>

LowerCase == <<"a","b","c","d","e","f","g","h","i","j","k","l","m",
               "n","o","p","q","r","s","t","u","v","w","x","y","z">>

WhiteSpace == {" ", "\t", "\n"}

\* The lower-case form of each upper-case letter.
ToLower ==
    [c \in { UpperCase[i] : i \in DOMAIN UpperCase } |->
        LowerCase[CHOOSE i \in DOMAIN UpperCase : UpperCase[i] = c]]

LowerChar(c) == IF c \in DOMAIN ToLower THEN ToLower[c] ELSE c

\* str.lower()
lower(s) == [i \in DOMAIN s |-> LowerChar(s[i])]

RECURSIVE lstrip(_)
lstrip(s) == IF s # <<>> /\ Head(s) \in WhiteSpace THEN lstrip(Tail(s)) ELSE s

RECURSIVE rstrip(_)
rstrip(s) ==
    IF s # <<>> /\ s[Len(s)] \in WhiteSpace THEN rstrip(SubSeq(s, 1, Len(s) - 1)) ELSE s

\* str.strip()
strip(s) == rstrip(lstrip(s))

----------------------------------------------------------------------------
(* game_state.py *)

\* class Move: the members, named by their values
Move == {"rock", "paper", "scissors", "bomb"}

\* Move(value): the member whose value is the string, "ValueError" when none is
MoveOfValue(s) ==
    CASE s = <<"r","o","c","k">> -> "rock"
      [] s = <<"p","a","p","e","r">> -> "paper"
      [] s = <<"s","c","i","s","s","o","r","s">> -> "scissors"
      [] s = <<"b","o","m","b">> -> "bomb"
      [] OTHER -> "ValueError"

\* Move.value as a string of characters
ValueOfMove(m) ==
    CASE m = "rock" -> <<"r","o","c","k">>
      [] m = "paper" -> <<"p","a","p","e","r">>
      [] m = "scissors" -> <<"s","c","i","s","s","o","r","s">>
      [] m = "bomb" -> <<"b","o","m","b">>

\* class RoundResult: the members, named by their values
RoundResult == {"user_win", "bot_win", "draw", "invalid"}

\* GameState(): a new object with the dataclass defaults
GameState ==
    [round_number |-> 0, user_score |-> 0, bot_score |-> 0,
     user_bomb_used |-> FALSE, bot_bomb_used |-> FALSE,
     game_over |-> FALSE, rounds_history |-> <<>>]

\* GameState.to_dict
to_dict(gs) ==
    [round_number |-> gs.round_number, user_score |-> gs.user_score,
     bot_score |-> gs.bot_score, user_bomb_used |-> gs.user_bomb_used,
     bot_bomb_used |-> gs.bot_bomb_used, game_over |-> gs.game_over,
     rounds_history |-> gs.rounds_history]

\* The error messages of validate_move; the f-string keeps the move as given.
InvalidMoveMessage(move) ==
    [text |-> "Invalid move '{move}'. Valid moves: rock, paper, scissors, bomb",
     move |-> move]

BombUsedMessage == [text |-> "Bomb has already been used this game", move |-> <<>>]

NoMessage == [text |-> "", move |-> <<>>]

\* validate_move without str.lower
validate_move_without_lower(move, player_bomb_used) ==
    LET move_lower == strip(move)
        parsed_move == MoveOfValue(move_lower)
    IN  IF parsed_move = "ValueError"
        THEN <<FALSE, "None", InvalidMoveMessage(move)>>
        ELSE IF parsed_move = "bomb" /\ player_bomb_used
        THEN <<FALSE, "None", BombUsedMessage>>
        ELSE <<TRUE, parsed_move, NoMessage>>

\* validate_move without str.strip
validate_move_without_strip(move, player_bomb_used) ==
    LET move_lower == lower(move)
        parsed_move == MoveOfValue(move_lower)
    IN  IF parsed_move = "ValueError"
        THEN <<FALSE, "None", InvalidMoveMessage(move)>>
        ELSE IF parsed_move = "bomb" /\ player_bomb_used
        THEN <<FALSE, "None", BombUsedMessage>>
        ELSE <<TRUE, parsed_move, NoMessage>>

\* validate_move without its check of the bomb flag
validate_move_without_bomb_check(move, player_bomb_used) ==
    LET move_lower == strip(lower(move))
        parsed_move == MoveOfValue(move_lower)
    IN  IF parsed_move = "ValueError"
        THEN <<FALSE, "None", InvalidMoveMessage(move)>>
        ELSE <<TRUE, parsed_move, NoMessage>>

\* GameLogic.validate_move: (is_valid, move_enum, error_message)
validate_move(move, player_bomb_used) ==
    LET move_lower == strip(lower(move))
        parsed_move == MoveOfValue(move_lower)
    IN  IF parsed_move = "ValueError"
        THEN <<FALSE, "None", InvalidMoveMessage(move)>>
        ELSE IF parsed_move = "bomb" /\ player_bomb_used
        THEN <<FALSE, "None", BombUsedMessage>>
        ELSE <<TRUE, parsed_move, NoMessage>>

\* The winning_moves table of resolve_round: what each move beats.
winning_moves(m) ==
    CASE m = "rock" -> "scissors"
      [] m = "scissors" -> "paper"
      [] m = "paper" -> "rock"

\* resolve_round without its test of equal moves
resolve_round_without_equal_test(user_move, bot_move) ==
    IF user_move = "bomb" /\ bot_move = "bomb" THEN "draw"
    ELSE IF user_move = "bomb" THEN "user_win"
    ELSE IF bot_move = "bomb" THEN "bot_win"
    ELSE IF winning_moves(user_move) = bot_move THEN "user_win"
    ELSE "bot_win"

\* resolve_round without its first test, of bomb against bomb
resolve_round_without_double_bomb(user_move, bot_move) ==
    IF user_move = "bomb" THEN "user_win"
    ELSE IF bot_move = "bomb" THEN "bot_win"
    ELSE IF user_move = bot_move THEN "draw"
    ELSE IF winning_moves(user_move) = bot_move THEN "user_win"
    ELSE "bot_win"

\* GameLogic.resolve_round
resolve_round(user_move, bot_move) ==
    IF user_move = "bomb" /\ bot_move = "bomb" THEN "draw"
    ELSE IF user_move = "bomb" THEN "user_win"
    ELSE IF bot_move = "bomb" THEN "bot_win"
    ELSE IF user_move = bot_move THEN "draw"
    ELSE IF winning_moves(user_move) = bot_move THEN "user_win"
    ELSE "bot_win"

\* determine_game_winner giving the user a game with equal scores
determine_game_winner_favouring_user(state) ==
    IF state.user_score >= state.bot_score THEN "user" ELSE "bot"

\* GameLogic.determine_game_winner
determine_game_winner(state) ==
    IF state.user_score > state.bot_score THEN "user"
    ELSE IF state.bot_score > state.user_score THEN "bot"
    ELSE "draw"

----------------------------------------------------------------------------
(* The object store: GameState objects live while something refers to them. *)

None == "None"

\* The identity given to a newly constructed object: a name no live object has.
NewObject(h) ==
    CHOOSE o \in 1..(Cardinality(DOMAIN h) + 1) :
        o \notin DOMAIN h /\ \A x \in 1..(o - 1) : x \in DOMAIN h

\* The store with object o bound to gs.
Store(h, o, gs) == [x \in DOMAIN h \cup {o} |-> IF x = o THEN gs ELSE h[x]]

\* The store after reference counting has freed what the roots no longer reach.
Collect(h, roots) == [x \in DOMAIN h \cap roots |-> h[x]]

\* Round attempts seen by the live sessions together (bounds the exploration).
RECURSIVE SumRounds(_, _)
SumRounds(h, S) ==
    IF S = {} THEN 0
    ELSE LET o == CHOOSE x \in S : TRUE
         IN  h[o].round_number + SumRounds(h, S \ {o})

TotalRounds == SumRounds(heap, DOMAIN heap)

\* The round attempts counted so far for a new object.
NoTally == [draw |-> 0, invalid |-> 0]

\* The tally after a round attempt with the given result on object o.
Count(t, o, result) ==
    [t EXCEPT ![o] =
        [draw |-> @.draw + (IF result = "draw" THEN 1 ELSE 0),
         invalid |-> @.invalid + (IF result = "invalid" THEN 1 ELSE 0)]]

----------------------------------------------------------------------------
(* referee_agent.py *)

\* tool_available_moves without its test of bot_bomb_used
tool_available_moves_ignoring_flag(gs, roll) ==
    <<"rock", "paper", "scissors">> \o (IF roll THEN <<"bomb">> ELSE <<>>)

\* play_round_tool, lines 76-80: the moves the bot chooses among; roll is
\* the outcome of random.random() < 0.15
tool_available_moves(gs, roll) ==
    <<"rock", "paper", "scissors">>
        \o (IF ~gs.bot_bomb_used /\ roll THEN <<"bomb">> ELSE <<>>)

\* play_round_tool, lines 76-82: the moves random.choice may give the bot,
\* whatever random.random() gave
tool_bot_moves(gs) ==
    UNION { { tool_available_moves(gs, roll)[i] :
                  i \in DOMAIN tool_available_moves(gs, roll) } : roll \in BOOLEAN }

\* tool_invalid_round without the test that ends the game
tool_invalid_round_without_game_over(gs) ==
    [gs EXCEPT !.round_number = gs.round_number + 1]

\* tool_invalid_round giving the round to the bot
tool_invalid_round_with_penalty(gs) ==
    LET round_number == gs.round_number + 1
    IN  [gs EXCEPT !.round_number = round_number,
                   !.bot_score = @ + 1,
                   !.game_over = IF round_number >= 3 THEN TRUE ELSE @]

\* play_round_tool, lines 56-62: the session after an invalid move
tool_invalid_round(gs) ==
    LET round_number == gs.round_number + 1
    IN  [gs EXCEPT !.round_number = round_number,
                   !.game_over = IF round_number >= 3 THEN TRUE ELSE @]

\* play_round_tool, lines 64-73: the dict returned for an invalid move
tool_invalid_return(gs, user_move, error_msg) ==
    [op |-> "play_round_tool",
     round_number |-> gs.round_number, result |-> "invalid",
     error_message |-> error_msg, user_move |-> user_move, bot_move |-> None,
     user_score |-> gs.user_score, bot_score |-> gs.bot_score,
     game_over |-> gs.game_over]

\* tool_valid_round building the record before round_number is incremented
tool_valid_round_recording_old_round(gs, user_move_enum, bot_move_enum) ==
    LET result == resolve_round(user_move_enum, bot_move_enum)
        round_record == [round |-> gs.round_number, user_move |-> user_move_enum,
                         bot_move |-> bot_move_enum, result |-> result]
    IN  [round_number |-> gs.round_number + 1,
         user_score |-> gs.user_score + (IF result = "user_win" THEN 1 ELSE 0),
         bot_score |-> gs.bot_score + (IF result = "bot_win" THEN 1 ELSE 0),
         user_bomb_used |-> IF user_move_enum = "bomb" THEN TRUE ELSE gs.user_bomb_used,
         bot_bomb_used |-> IF bot_move_enum = "bomb" THEN TRUE ELSE gs.bot_bomb_used,
         game_over |-> IF gs.round_number + 1 >= 3 THEN TRUE ELSE gs.game_over,
         rounds_history |-> Append(gs.rounds_history, round_record)]

\* play_round_tool, lines 84-113: the session after a valid move
tool_valid_round(gs, user_move_enum, bot_move_enum) ==
    LET result == resolve_round(user_move_enum, bot_move_enum)
        round_number == gs.round_number + 1
        round_record == [round |-> round_number, user_move |-> user_move_enum,
                         bot_move |-> bot_move_enum, result |-> result]
    IN  [round_number |-> round_number,
         user_score |-> gs.user_score + (IF result = "user_win" THEN 1 ELSE 0),
         bot_score |-> gs.bot_score + (IF result = "bot_win" THEN 1 ELSE 0),
         user_bomb_used |-> IF user_move_enum = "bomb" THEN TRUE ELSE gs.user_bomb_used,
         bot_bomb_used |-> IF bot_move_enum = "bomb" THEN TRUE ELSE gs.bot_bomb_used,
         game_over |-> IF round_number >= 3 THEN TRUE ELSE gs.game_over,
         rounds_history |-> Append(gs.rounds_history, round_record)]

\* play_round_tool, lines 115-125: the dict returned for a valid move
tool_valid_return(gs, user_move_enum, bot_move_enum) ==
    [op |-> "play_round_tool",
     round_number |-> gs.round_number,
     result |-> resolve_round(user_move_enum, bot_move_enum),
     user_move |-> user_move_enum, bot_move |-> bot_move_enum,
     user_score |-> gs.user_score, bot_score |-> gs.bot_score,
     game_over |-> gs.game_over,
     user_bomb_used |-> gs.user_bomb_used, bot_bomb_used |-> gs.bot_bomb_used]

\* validate_move_tool: the dict returned
validate_move_tool(gs, move) ==
    LET v == validate_move(move, gs.user_bomb_used)
    IN  [op |-> "validate_move_tool", is_valid |-> v[1], parsed_move |-> v[2],
         error_message |-> v[3], current_state |-> to_dict(gs)]

\* get_game_state_tool: the dict returned
get_game_state_tool(gs) == [op |-> "get_game_state_tool", state |-> to_dict(gs)]

\* reset_game_tool: the dict returned
reset_game_tool(gs) ==
    [op |-> "reset_game_tool", message |-> "Game has been reset", state |-> to_dict(gs)]

----------------------------------------------------------------------------
(* app.py *)

\* play_round, lines 112-114: the moves the bot chooses among; roll is the
\* outcome of random.random() < 0.15
api_available_moves(gs, roll) ==
    <<"rock", "paper", "scissors">>
        \o (IF ~gs.bot_bomb_used /\ roll THEN <<"bomb">> ELSE <<>>)

\* play_round, lines 112-115: the moves random.choice may give the bot,
\* whatever random.random() gave
api_bot_moves(gs) ==
    UNION { { api_available_moves(gs, roll)[i] :
                  i \in DOMAIN api_available_moves(gs, roll) } : roll \in BOOLEAN }

\* api_invalid_round without the increment of round_number
api_invalid_round_without_increment(gs) ==
    [gs EXCEPT !.game_over = IF gs.round_number >= 3 THEN TRUE ELSE @]

\* play_round, lines 97-100: the session after an invalid move
api_invalid_round(gs) ==
    LET round_number == gs.round_number + 1
    IN  [gs EXCEPT !.round_number = round_number,
                   !.game_over = IF round_number >= 3 THEN TRUE ELSE @]

\* play_round, lines 102-108: the response to an invalid move
api_invalid_response(gs, error_msg) ==
    [op |-> "play_round", success |-> FALSE, error |-> error_msg,
     round |-> gs.round_number, game_over |-> gs.game_over, state |-> to_dict(gs)]

\* api_valid_round putting the new record first in the history
api_valid_round_prepending(gs, user_move_enum, bot_move_enum) ==
    LET result == resolve_round(user_move_enum, bot_move_enum)
        round_number == gs.round_number + 1
    IN  [round_number |-> round_number,
         user_score |-> gs.user_score + (IF result = "user_win" THEN 1 ELSE 0),
         bot_score |-> gs.bot_score + (IF result = "bot_win" THEN 1 ELSE 0),
         user_bomb_used |-> IF user_move_enum = "bomb" THEN TRUE ELSE gs.user_bomb_used,
         bot_bomb_used |-> IF bot_move_enum = "bomb" THEN TRUE ELSE gs.bot_bomb_used,
         game_over |-> IF round_number >= 3 THEN TRUE ELSE gs.game_over,
         rounds_history |->
             <<[round |-> round_number, user_move |-> user_move_enum,
                bot_move |-> bot_move_enum, result |-> result]>>
                 \o gs.rounds_history]

\* api_valid_round without the test that ends the game
api_valid_round_without_game_over(gs, user_move_enum, bot_move_enum) ==
    LET result == resolve_round(user_move_enum, bot_move_enum)
        round_number == gs.round_number + 1
    IN  [round_number |-> round_number,
         user_score |-> gs.user_score + (IF result = "user_win" THEN 1 ELSE 0),
         bot_score |-> gs.bot_score + (IF result = "bot_win" THEN 1 ELSE 0),
         user_bomb_used |-> IF user_move_enum = "bomb" THEN TRUE ELSE gs.user_bomb_used,
         bot_bomb_used |-> IF bot_move_enum = "bomb" THEN TRUE ELSE gs.bot_bomb_used,
         game_over |-> gs.game_over,
         rounds_history |->
             Append(gs.rounds_history,
                    [round |-> round_number, user_move |-> user_move_enum,
                     bot_move |-> bot_move_enum, result |-> result])]

\* play_round, lines 117-145: the session after a valid move
api_valid_round(gs, user_move_enum, bot_move_enum) ==
    LET result == resolve_round(user_move_enum, bot_move_enum)
        round_number == gs.round_number + 1
    IN  [round_number |-> round_number,
         user_score |-> gs.user_score + (IF result = "user_win" THEN 1 ELSE 0),
         bot_score |-> gs.bot_score + (IF result = "bot_win" THEN 1 ELSE 0),
         user_bomb_used |-> IF user_move_enum = "bomb" THEN TRUE ELSE gs.user_bomb_used,
         bot_bomb_used |-> IF bot_move_enum = "bomb" THEN TRUE ELSE gs.bot_bomb_used,
         game_over |-> IF round_number >= 3 THEN TRUE ELSE gs.game_over,
         rounds_history |->
             Append(gs.rounds_history,
                    [round |-> round_number, user_move |-> user_move_enum,
                     bot_move |-> bot_move_enum, result |-> result])]

\* play_round, lines 144-148 and 166-180: the response to a valid move
api_valid_response(gs, user_move_enum, bot_move_enum, commentary) ==
    [op |-> "play_round", success |-> TRUE,
     round |-> gs.round_number,
     user_move |-> user_move_enum, bot_move |-> bot_move_enum,
     result |-> resolve_round(user_move_enum, bot_move_enum),
     user_score |-> gs.user_score, bot_score |-> gs.bot_score,
     game_over |-> gs.game_over,
     winner |-> IF gs.round_number >= 3 THEN determine_game_winner(gs) ELSE None,
     commentary |-> commentary,
     user_bomb_used |-> gs.user_bomb_used, bot_bomb_used |-> gs.bot_bomb_used,
     state |-> to_dict(gs)]

\* The text the language model answers with, whatever it is.
AiText == "text of the language model"

\* get_ai_response, line 46: the retries allowed after RESOURCE_EXHAUSTED
MaxRetries == 2

\* What one call of the language model does: it answers, raises a ClientError
\* that says RESOURCE_EXHAUSTED, or raises anything else (another ClientError,
\* a network error, the ValueError of create_ai_client without an API key).
Attempt == {"text", "RESOURCE_EXHAUSTED", "error"}

\* What the language model does on the successive calls of one request.
Answers == [1..(MaxRetries + 1) -> Attempt]

\* The language model answers at once.
Answering == [i \in 1..(MaxRetries + 1) |-> "text"]

\* get_ai_response retrying after any error
RECURSIVE get_ai_response_retrying_any_error(_, _)
get_ai_response_retrying_any_error(answers, retry_count) ==
    LET answer == answers[retry_count + 1]
    IN  IF answer = "text"
        THEN [raised |-> FALSE, calls |-> retry_count + 1]
        ELSE IF retry_count < MaxRetries
        THEN get_ai_response_retrying_any_error(answers, retry_count + 1)
        ELSE [raised |-> TRUE, calls |-> retry_count + 1]

\* get_ai_response(message, retry_count): whether it raised, and the calls made
RECURSIVE get_ai_response(_, _)
get_ai_response(answers, retry_count) ==
    LET answer == answers[retry_count + 1]
    IN  IF answer = "text"
        THEN [raised |-> FALSE, calls |-> retry_count + 1]
        ELSE IF answer = "RESOURCE_EXHAUSTED" /\ retry_count < MaxRetries
        THEN get_ai_response(answers, retry_count + 1)
        ELSE [raised |-> TRUE, calls |-> retry_count + 1]

\* What a call of get_ai_response may come to.
AiOutcomes == { get_ai_response(answers, 0) : answers \in Answers }

\* No call of the language model was made.
NoAi == [raised |-> FALSE, calls |-> 0]

\* start_game, lines 67-73: the introduction, canned when the call raised
api_intro(ai) ==
    IF ai.raised
    THEN "Welcome to Rock-Paper-Scissors-Plus! Ready to play? Best of 3 rounds!"
    ELSE AiText

\* api_commentary without its case for the bot's win
api_commentary_without_bot_win(gs, result, ai) ==
    IF ~ai.raised THEN [text |-> AiText, round |-> 0]
    ELSE IF result = "user_win"
    THEN [text |-> "You win round {round_number}!", round |-> gs.round_number]
    ELSE [text |-> "Round {round_number} is a draw!", round |-> gs.round_number]

\* play_round, lines 150-164: the commentary, canned by result when the call
\* raised; the f-strings keep the round number
api_commentary(gs, result, ai) ==
    IF ~ai.raised THEN [text |-> AiText, round |-> 0]
    ELSE IF result = "user_win"
    THEN [text |-> "You win round {round_number}!", round |-> gs.round_number]
    ELSE IF result = "bot_win"
    THEN [text |-> "I win round {round_number}!", round |-> gs.round_number]
    ELSE [text |-> "Round {round_number} is a draw!", round |-> gs.round_number]

----------------------------------------------------------------------------
(* The inputs explored. *)

Clients == {"c1"}

\* secrets.token_hex(16): a session id no other client is given
Token(c) == c

\* The strings a user is taken to type or post as a move in a round: a move
\* name, the bomb with other case and surrounding white space, and no move.
Inputs ==
    { <<"R","o","c","k">>, <<" ","B","O","M","B","\n">>, <<"b","a","n","a","n","a">> }

\* upper(s): the name s in capitals, as str.upper gives it
upper(s) ==
    [i \in DOMAIN s |->
        IF \E j \in DOMAIN LowerCase : LowerCase[j] = s[i]
        THEN UpperCase[CHOOSE j \in DOMAIN LowerCase : LowerCase[j] = s[i]]
        ELSE s[i]]

\* The strings given to GameLogic.validate_move when it is called on its own.
LogicInputs ==
    { ValueOfMove(m) : m \in Move }
        \cup { upper(ValueOfMove(m)) : m \in Move }
        \cup { <<" ">> \o ValueOfMove(m) \o <<" ">> : m \in Move }
        \cup { <<"b","a","n","a","n","a">>, <<>> }

----------------------------------------------------------------------------
(* The initial states: main.py or app.py has just been loaded. *)

InitCli ==
    /\ mode = "cli"
    /\ heap = [o \in {1} |-> GameState]
    /\ game_state = 1
    /\ main_game_state = 1
    /\ game_sessions = <<>>
    /\ session = [c \in Clients |-> None]
    /\ pc = "input"
    /\ tally = [o \in {1} |-> NoTally]

InitWeb ==
    /\ mode = "web"
    /\ heap = <<>>
    /\ game_state = None
    /\ main_game_state = None
    /\ game_sessions = <<>>
    /\ session = [c \in Clients |-> None]
    /\ pc = "serving"
    /\ tally = <<>>

Init ==
    /\ call = [op |-> "none"]
    /\ ret = [op |-> "none"]
    /\ (InitCli \/ InitWeb)

\* The tally of the live objects, a newly constructed object starting at zero.
Retally(t, h, new) ==
    [o \in DOMAIN h |-> IF o \in DOMAIN t /\ o \notin new THEN t[o] ELSE NoTally]

----------------------------------------------------------------------------
(* The tool calls of referee_agent.py, as main.py's tool loop dispatches them. *)

\* play_round_tool(user_move)
PlayRoundTool(user_move) ==
    LET gs == heap[game_state]
        v == validate_move(user_move, gs.user_bomb_used)
    IN  /\ mode = "cli" /\ pc = "tools"
        /\ TotalRounds < MaxRounds
        /\ IF ~v[1]
           THEN /\ heap' = [heap EXCEPT ![game_state] = tool_invalid_round(gs)]
                /\ ret' = tool_invalid_return(heap'[game_state], user_move, v[3])
                /\ tally' = Count(tally, game_state, "invalid")
           ELSE \E bot_move_enum \in tool_bot_moves(gs) :
                    /\ heap' = [heap EXCEPT ![game_state] =
                                    tool_valid_round(gs, v[2], bot_move_enum)]
                    /\ ret' = tool_valid_return(heap'[game_state], v[2], bot_move_enum)
                    /\ tally' = Count(tally, game_state,
                                      resolve_round(v[2], bot_move_enum))
        /\ UNCHANGED <<mode, game_state, main_game_state, game_sessions, session, pc>>
        /\ call' = [op |-> "play_round_tool", input |-> user_move, before |-> gs]

\* validate_move_tool counting a rejected move as a round, as play_round_tool does
ValidateMoveToolConsumingRound(move) ==
    /\ mode = "cli" /\ pc = "tools"
    /\ heap' = IF validate_move(move, heap[game_state].user_bomb_used)[1]
               THEN heap
               ELSE [heap EXCEPT ![game_state] = tool_invalid_round(@)]
    /\ ret' = validate_move_tool(heap'[game_state], move)
    /\ UNCHANGED <<mode, game_state, main_game_state, game_sessions, session, pc, tally>>
    /\ call' = [op |-> "validate_move_tool", input |-> move, before |-> heap[game_state]]

\* validate_move_tool(move)
ValidateMoveTool(move) ==
    /\ mode = "cli" /\ pc = "tools"
    /\ ret' = validate_move_tool(heap[game_state], move)
    /\ UNCHANGED <<mode, heap, game_state, main_game_state, game_sessions, session, pc, tally>>
    /\ call' = [op |-> "validate_move_tool", input |-> move, before |-> heap[game_state]]

\* get_game_state_tool()
GetGameStateTool ==
    /\ mode = "cli" /\ pc = "tools"
    /\ ret' = get_game_state_tool(heap[game_state])
    /\ UNCHANGED <<mode, heap, game_state, main_game_state, game_sessions, session, pc, tally>>
    /\ call' = [op |-> "get_game_state_tool"]

\* reset_game_tool without its global statement: the new object is bound to a
\* local name and the global keeps the old session
ResetGameToolWithoutGlobal ==
    /\ mode = "cli" /\ pc = "tools"
    /\ ret' = reset_game_tool(GameState)
    /\ UNCHANGED <<mode, heap, game_state, main_game_state, game_sessions, session, pc, tally>>
    /\ call' = [op |-> "reset_game_tool"]

\* reset_game_tool(): rebinds the global of referee_agent to a new object
ResetGameTool ==
    /\ mode = "cli" /\ pc = "tools"
    /\ LET kept == Collect(heap, {main_game_state})
       IN  /\ game_state' = NewObject(kept)
           /\ heap' = Store(kept, game_state', GameState)
    /\ ret' = reset_game_tool(heap'[game_state'])
    /\ tally' = Retally(tally, heap', {game_state'})
    /\ UNCHANGED <<mode, main_game_state, game_sessions, session, pc>>
    /\ call' = [op |-> "reset_game_tool"]

----------------------------------------------------------------------------
(* main.py: run_game *)

\* lines 69-92: the loop test passes, the user types a message and the
\* referee model answers it
RunGameInput ==
    /\ mode = "cli" /\ pc = "input"
    /\ ~heap[main_game_state].game_over
    /\ pc' = "tools"
    /\ UNCHANGED <<mode, heap, game_state, main_game_state, game_sessions, session, ret, tally, call>>

\* lines 131-135: the referee model answers with text, which ends the tool loop
RunGameReply ==
    /\ mode = "cli" /\ pc = "tools"
    /\ pc' = "input"
    /\ UNCHANGED <<mode, heap, game_state, main_game_state, game_sessions, session, ret, tally, call>>

\* lines 78-80 and 138: the user quits before the loop test has seen game_over
RunGameQuit ==
    /\ mode = "cli" /\ pc = "input"
    /\ ~heap[main_game_state].game_over
    /\ pc' = "done"
    /\ ret' = [op |-> "run_game", printed |-> "goodbye"]
    /\ UNCHANGED <<mode, heap, game_state, main_game_state, game_sessions, session, tally>>
    /\ call' = [op |-> "run_game"]

\* lines 69 and 138-152: the loop test fails and the final score is printed
RunGameOver ==
    /\ mode = "cli" /\ pc = "input"
    /\ heap[main_game_state].game_over
    /\ pc' = "done"
    /\ ret' = [op |-> "run_game", printed |-> "game over",
               user_score |-> heap[main_game_state].user_score,
               bot_score |-> heap[main_game_state].bot_score,
               winner |-> determine_game_winner(heap[main_game_state])]
    /\ UNCHANGED <<mode, heap, game_state, main_game_state, game_sessions, session, tally>>
    /\ call' = [op |-> "run_game"]

----------------------------------------------------------------------------
(* app.py: the request handlers *)

\* The objects game_sessions refers to.
SessionObjects(gsess) == { gsess[k] : k \in DOMAIN gsess }

\* game_sessions without the entry of session_id.
Drop(gsess, session_id) == [k \in DOMAIN gsess \ {session_id} |-> gsess[k]]

\* index(): gives the client a session id when it has none
Index(c) ==
    /\ mode = "web"
    /\ session' = [session EXCEPT ![c] = IF @ = None THEN Token(c) ELSE @]
    /\ ret' = [op |-> "index"]
    /\ UNCHANGED <<mode, heap, game_state, main_game_state, game_sessions, pc, tally>>
    /\ call' = [op |-> "index", client |-> c]

\* start_game(), ai being what its call of get_ai_response comes to
StartGameWith(c, ai) ==
    LET session_id == session[c]
    IN  /\ mode = "web"
        /\ LET kept == Collect(heap, SessionObjects(Drop(game_sessions, session_id)))
           IN  /\ game_sessions' = Store(game_sessions, session_id, NewObject(kept))
               /\ heap' = Store(kept, NewObject(kept), GameState)
        /\ ret' = [op |-> "start_game", success |-> TRUE, message |-> api_intro(ai),
                   state |-> to_dict(heap'[game_sessions'[session_id]])]
        /\ tally' = Retally(tally, heap', {game_sessions'[session_id]})
        /\ UNCHANGED <<mode, game_state, main_game_state, session, pc>>
        /\ call' = [op |-> "start_game", client |-> c, ai |-> ai]

\* start_game(), the language model answering
StartGame(c) == StartGameWith(c, get_ai_response(Answering, 0))

\* play_round() undoing the round when the commentary could not be had
PlayRoundRollingBack(c, move, commentary) ==
    LET session_id == session[c]
        created == session_id \notin DOMAIN game_sessions
        o == IF created THEN NewObject(heap) ELSE game_sessions[session_id]
        gs == IF created THEN GameState ELSE heap[o]
        user_move == lower(move)
        v == validate_move(user_move, gs.user_bomb_used)
        ai == IF v[1] THEN commentary ELSE NoAi
    IN  /\ mode = "web"
        /\ TotalRounds < MaxRounds
        /\ game_sessions' = Store(game_sessions, session_id, o)
        /\ IF ~v[1]
           THEN /\ heap' = Store(heap, o, api_invalid_round(gs))
                /\ ret' = api_invalid_response(heap'[o], v[3])
                /\ tally' = Count(Retally(tally, heap', IF created THEN {o} ELSE {}), o, "invalid")
           ELSE \E bot_move_enum \in api_bot_moves(gs) :
                    /\ heap' = Store(heap, o, IF ai.raised THEN gs
                                              ELSE api_valid_round(gs, v[2], bot_move_enum))
                    /\ ret' = api_valid_response(heap'[o], v[2], bot_move_enum,
                                  api_commentary(heap'[o], resolve_round(v[2], bot_move_enum), ai))
                    /\ tally' = Retally(tally, heap', IF created THEN {o} ELSE {})
        /\ UNCHANGED <<mode, game_state, main_game_state, session, pc>>
        /\ call' = [op |-> "play_round", client |-> c, input |-> move, before |-> gs,
                     ai |-> ai]

\* play_round(), commentary being what its call of get_ai_response comes to
PlayRoundWith(c, move, commentary) ==
    LET session_id == session[c]
        \* get_or_create_game_state(session_id)
        created == session_id \notin DOMAIN game_sessions
        o == IF created THEN NewObject(heap) ELSE game_sessions[session_id]
        gs == IF created THEN GameState ELSE heap[o]
        user_move == lower(move)
        v == validate_move(user_move, gs.user_bomb_used)
        ai == IF v[1] THEN commentary ELSE NoAi
    IN  /\ mode = "web"
        /\ TotalRounds < MaxRounds
        /\ game_sessions' = Store(game_sessions, session_id, o)
        /\ IF ~v[1]
           THEN /\ heap' = Store(heap, o, api_invalid_round(gs))
                /\ ret' = api_invalid_response(heap'[o], v[3])
                /\ tally' = Count(Retally(tally, heap', IF created THEN {o} ELSE {}), o, "invalid")
           ELSE \E bot_move_enum \in api_bot_moves(gs) :
                    /\ heap' = Store(heap, o, api_valid_round(gs, v[2], bot_move_enum))
                    /\ ret' = api_valid_response(heap'[o], v[2], bot_move_enum,
                                  api_commentary(heap'[o], resolve_round(v[2], bot_move_enum), ai))
                    /\ tally' = Count(Retally(tally, heap', IF created THEN {o} ELSE {}), o,
                                      resolve_round(v[2], bot_move_enum))
        /\ UNCHANGED <<mode, game_state, main_game_state, session, pc>>
        /\ call' = [op |-> "play_round", client |-> c, input |-> move, before |-> gs,
                     ai |-> ai]

\* play_round(), the language model answering
PlayRound(c, move) == PlayRoundWith(c, move, get_ai_response(Answering, 0))

\* reset_game()
ResetGame(c) ==
    LET session_id == session[c]
    IN  /\ mode = "web"
        /\ LET kept == Collect(heap, SessionObjects(Drop(game_sessions, session_id)))
           IN  /\ game_sessions' = Store(game_sessions, session_id, NewObject(kept))
               /\ heap' = Store(kept, NewObject(kept), GameState)
        /\ ret' = [op |-> "reset_game", success |-> TRUE,
                   message |-> "Game reset! Ready for a new match?"]
        /\ tally' = Retally(tally, heap', {game_sessions'[session_id]})
        /\ UNCHANGED <<mode, game_state, main_game_state, session, pc>>
        /\ call' = [op |-> "reset_game", client |-> c]

----------------------------------------------------------------------------

(* GameLogic called on its own: validate_move on a string, then resolve_round *)
(* on the parsed move and a move of the bot.                                  *)

InitLogic ==
    /\ mode = "logic"
    /\ heap = <<>>
    /\ game_state = None
    /\ main_game_state = None
    /\ game_sessions = <<>>
    /\ session = [c \in Clients |-> None]
    /\ pc = "logic"
    /\ tally = <<>>
    /\ call = [op |-> "none"]
    /\ \E move \in LogicInputs, player_bomb_used \in BOOLEAN, bot_move \in Move :
           ret = [op |-> "call", move |-> move,
                  player_bomb_used |-> player_bomb_used, bot_move |-> bot_move]

\* GameLogic.validate_move(move, player_bomb_used)
ValidateMove ==
    /\ mode = "logic" /\ ret.op = "call"
    /\ LET v == validate_move(ret.move, ret.player_bomb_used)
       IN  ret' = [op |-> "validate_move", move |-> ret.move,
                   player_bomb_used |-> ret.player_bomb_used, bot_move |-> ret.bot_move,
                   is_valid |-> v[1], parsed_move |-> v[2], error_message |-> v[3]]
    /\ UNCHANGED <<mode, heap, game_state, main_game_state, game_sessions, session, pc, tally, call>>

\* GameLogic.resolve_round(user_move, bot_move)
ResolveRound ==
    /\ mode = "logic" /\ ret.op = "validate_move" /\ ret.is_valid
    /\ ret' = [op |-> "resolve_round", user_move |-> ret.parsed_move,
               bot_move |-> ret.bot_move,
               result |-> resolve_round(ret.parsed_move, ret.bot_move)]
    /\ UNCHANGED <<mode, heap, game_state, main_game_state, game_sessions, session, pc, tally, call>>

NextLogic == ValidateMove \/ ResolveRound

SpecLogic == InitLogic /\ [][NextLogic]_vars

----------------------------------------------------------------------------

Next ==
    \/ \E user_move \in Inputs : PlayRoundTool(user_move)
    \/ ResetGameTool
    \/ RunGameInput
    \/ RunGameReply
    \/ RunGameQuit
    \/ RunGameOver
    \/ \E c \in Clients : Index(c)
    \/ \E c \in Clients : StartGame(c)
    \/ \E c \in Clients, move \in Inputs : PlayRound(c, move)
    \/ \E c \in Clients : ResetGame(c)

Spec == Init /\ [][Next]_vars

----------------------------------------------------------------------------
(* The command-line referee with all four tools of TOOL_FUNCTIONS: the      *)
(* referee model may call any of them, any number of times, in a turn.      *)

InitTools ==
    /\ call = [op |-> "none"]
    /\ ret = [op |-> "none"]
    /\ InitCli

NextTools ==
    \/ \E move \in Inputs : ValidateMoveTool(move)
    \/ \E user_move \in Inputs : TotalRounds < MaxToolRounds /\ PlayRoundTool(user_move)
    \/ GetGameStateTool
    \/ ResetGameTool
    \/ RunGameInput
    \/ RunGameReply
    \/ RunGameQuit
    \/ RunGameOver

SpecTools == InitTools /\ [][NextTools]_vars

----------------------------------------------------------------------------
(* The language model failing: in app.py the calls of get_ai_response, in   *)
(* main.py the sending of a tool's result back to the referee model.        *)

\* The tools whose calls are explored here.
ToolOps == {"play_round_tool", "reset_game_tool"}

\* The record of the last call, with how the sending of its result went.
WithSent(c, how) ==
    [x \in DOMAIN c \cup {"sent"} |-> IF x = "sent" THEN how ELSE c[x]]

\* run_game, lines 109-125: sending the tool's result raises a ClientError
\* that says RESOURCE_EXHAUSTED, and the second sending is answered
SendRetried ==
    /\ mode = "cli" /\ pc = "tools"
    /\ call.op \in ToolOps /\ "sent" \notin DOMAIN call
    /\ call' = WithSent(call, "retried")
    /\ UNCHANGED <<mode, heap, game_state, main_game_state, game_sessions, session, pc, ret, tally>>

\* run_game, lines 117-127: the sending raises another error, or raises again
\* when tried a second time, and run_game ends with the exception
SendRaises ==
    /\ mode = "cli" /\ pc = "tools"
    /\ call.op \in ToolOps
    /\ pc' = "crashed"
    /\ call' = WithSent(call, "raised")
    /\ UNCHANGED <<mode, heap, game_state, main_game_state, game_sessions, session, ret, tally>>

NextService ==
    \/ \E user_move \in Inputs :
           TotalRounds < MaxServiceRounds /\ PlayRoundTool(user_move)
    \/ ResetGameTool
    \/ SendRetried
    \/ SendRaises
    \/ RunGameInput
    \/ RunGameReply
    \/ RunGameQuit
    \/ RunGameOver
    \/ \E c \in Clients : Index(c)
    \/ \E c \in Clients, ai \in AiOutcomes : StartGameWith(c, ai)
    \/ \E c \in Clients, move \in Inputs, ai \in AiOutcomes :
           TotalRounds < MaxCommentedRounds /\ PlayRoundWith(c, move, ai)
    \/ \E c \in Clients : ResetGame(c)

SpecService == Init /\ [][NextService]_vars

----------------------------------------------------------------------------
(* Two requests of one client served at the same time by two threads of the  *)
(* web application. app.py takes no lock, so the threads interleave between *)
(* any two reads or writes of game_sessions and of the fields of a session; *)
(* x += 1 is a read and a later write. Here pc, call and ret hold one entry *)
(* per thread, and no object is freed.                                      *)

Threads == {1, 2}

\* The requests the two threads serve: /api/play with a move, or /api/start.
Requests ==
    { [op |-> "play_round", client |-> "c1", input |-> move] : move \in Inputs }
        \cup { [op |-> "start_game", client |-> "c1"] }

\* The sessions game_sessions holds for the client when the requests arrive:
\* none, or the new session a /api/start has left.
Found == {<<>>, <<GameState>>}

\* The local variables of a handler that has not started.
Locals ==
    [at |-> "enter", game_state |-> None, user_move_enum |-> None,
     bot_move_enum |-> None, error_msg |-> NoMessage, loaded |-> 0]

InitThreads ==
    /\ mode = "threads"
    /\ game_state = None
    /\ main_game_state = None
    /\ session = [c \in Clients |-> Token(c)]
    /\ tally = <<>>
    /\ pc = [t \in Threads |-> Locals]
    /\ ret = [t \in Threads |-> [op |-> "none"]]
    /\ \E found \in Found :
           /\ heap = found
           /\ game_sessions = [k \in {Token("c1")} \cap { Token("c1") : o \in DOMAIN found }
                                  |-> 1]
           /\ \E requests \in [Threads -> Requests] :
                  call = [t \in Threads |->
                             [x \in DOMAIN requests[t] \cup {"before"} |->
                                 IF x = "before" THEN found ELSE requests[t][x]]]

\* Thread t is at the given place of the handler of the given route.
At(t, op, at) == mode = "threads" /\ call[t].op = op /\ pc[t].at = at

\* Thread t moves to the place at, the rest of the program as it was.
Goto(t, at) == pc' = [pc EXCEPT ![t].at = at]

\* play_round line 84 and get_or_create_game_state line 23: the test
\* `session_id not in game_sessions`
GetOrCreateTest(t) ==
    /\ At(t, "play_round", "enter")
    /\ Goto(t, IF session[call[t].client] \notin DOMAIN game_sessions
               THEN "create" ELSE "fetch")
    /\ UNCHANGED <<mode, heap, game_state, main_game_state, game_sessions, session,
                   call, ret, tally>>

\* get_or_create_game_state line 24: game_sessions[session_id] = GameState()
GetOrCreateStore(t) ==
    /\ At(t, "play_round", "create")
    /\ heap' = Store(heap, NewObject(heap), GameState)
    /\ game_sessions' = Store(game_sessions, session[call[t].client], NewObject(heap))
    /\ Goto(t, "fetch")
    /\ UNCHANGED <<mode, game_state, main_game_state, session, call, ret, tally>>

\* get_or_create_game_state line 25: return game_sessions[session_id]
GetOrCreateReturn(t) ==
    /\ At(t, "play_round", "fetch")
    /\ pc' = [pc EXCEPT ![t].at = "validate",
                        ![t].game_state = game_sessions[session[call[t].client]]]
    /\ UNCHANGED <<mode, heap, game_state, main_game_state, game_sessions, session,
                   call, ret, tally>>

\* play_round lines 86-95: the move is lower-cased and validated
ThreadValidate(t) ==
    /\ At(t, "play_round", "validate")
    /\ LET v == validate_move(lower(call[t].input),
                              heap[pc[t].game_state].user_bomb_used)
       IN  pc' = [pc EXCEPT ![t].at = IF v[1] THEN "choose" ELSE "invalid_load",
                            ![t].user_move_enum = v[2],
                            ![t].error_msg = v[3]]
    /\ UNCHANGED <<mode, heap, game_state, main_game_state, game_sessions, session,
                   call, ret, tally>>

\* play_round line 98, game_state.round_number += 1: the read
ThreadInvalidLoad(t) ==
    /\ At(t, "play_round", "invalid_load")
    /\ pc' = [pc EXCEPT ![t].at = "invalid_store",
                        ![t].loaded = heap[pc[t].game_state].round_number]
    /\ UNCHANGED <<mode, heap, game_state, main_game_state, game_sessions, session,
                   call, ret, tally>>

\* play_round line 98, game_state.round_number += 1: the write
ThreadInvalidStore(t) ==
    /\ At(t, "play_round", "invalid_store")
    /\ heap' = [heap EXCEPT ![pc[t].game_state].round_number = pc[t].loaded + 1]
    /\ Goto(t, "invalid_return")
    /\ UNCHANGED <<mode, game_state, main_game_state, game_sessions, session,
                   call, ret, tally>>

\* play_round lines 99-108: game_over is set and the response is built
ThreadInvalidReturn(t) ==
    /\ At(t, "play_round", "invalid_return")
    /\ heap' = [heap EXCEPT ![pc[t].game_state].game_over =
                                IF heap[pc[t].game_state].round_number >= 3
                                THEN TRUE ELSE @]
    /\ ret' = [ret EXCEPT ![t] =
                  api_invalid_response(heap'[pc[t].game_state], pc[t].error_msg)]
    /\ Goto(t, "done")
    /\ UNCHANGED <<mode, game_state, main_game_state, game_sessions, session,
                   call, tally>>

\* play_round lines 111-124: the bot chooses, the bomb flags are set
ThreadChoose(t) ==
    /\ At(t, "play_round", "choose")
    /\ \E bot_move_enum \in api_bot_moves(heap[pc[t].game_state]) :
           /\ heap' = [heap EXCEPT
                          ![pc[t].game_state].user_bomb_used =
                              IF pc[t].user_move_enum = "bomb" THEN TRUE ELSE @,
                          ![pc[t].game_state].bot_bomb_used =
                              IF bot_move_enum = "bomb" THEN TRUE ELSE @]
           /\ pc' = [pc EXCEPT
                        ![t].bot_move_enum = bot_move_enum,
                        ![t].at =
                            IF resolve_round(pc[t].user_move_enum, bot_move_enum) = "draw"
                            THEN "round_load" ELSE "score_load"]
    /\ UNCHANGED <<mode, game_state, main_game_state, game_sessions, session,
                   call, ret, tally>>

\* The result of the round thread t is playing.
ThreadResult(t) == resolve_round(pc[t].user_move_enum, pc[t].bot_move_enum)

\* play_round lines 127-131, the score of the winner += 1: the read
ThreadScoreLoad(t) ==
    /\ At(t, "play_round", "score_load")
    /\ pc' = [pc EXCEPT ![t].at = "score_store",
                        ![t].loaded = IF ThreadResult(t) = "user_win"
                                      THEN heap[pc[t].game_state].user_score
                                      ELSE heap[pc[t].game_state].bot_score]
    /\ UNCHANGED <<mode, heap, game_state, main_game_state, game_sessions, session,
                   call, ret, tally>>

\* play_round lines 127-131, the score of the winner += 1: the write
ThreadScoreStore(t) ==
    /\ At(t, "play_round", "score_store")
    /\ heap' = IF ThreadResult(t) = "user_win"
               THEN [heap EXCEPT ![pc[t].game_state].user_score = pc[t].loaded + 1]
               ELSE [heap EXCEPT ![pc[t].game_state].bot_score = pc[t].loaded + 1]
    /\ Goto(t, "round_load")
    /\ UNCHANGED <<mode, game_state, main_game_state, game_sessions, session,
                   call, ret, tally>>

\* play_round line 134, game_state.round_number += 1: the read
ThreadRoundLoad(t) ==
    /\ At(t, "play_round", "round_load")
    /\ pc' = [pc EXCEPT ![t].at = "round_store",
                        ![t].loaded = heap[pc[t].game_state].round_number]
    /\ UNCHANGED <<mode, heap, game_state, main_game_state, game_sessions, session,
                   call, ret, tally>>

\* play_round line 134, game_state.round_number += 1: the write
ThreadRoundStore(t) ==
    /\ At(t, "play_round", "round_store")
    /\ heap' = [heap EXCEPT ![pc[t].game_state].round_number = pc[t].loaded + 1]
    /\ Goto(t, "append")
    /\ UNCHANGED <<mode, game_state, main_game_state, game_sessions, session,
                   call, ret, tally>>

\* play_round lines 137-142: the record is appended, with the round_number read now
ThreadAppend(t) ==
    /\ At(t, "play_round", "append")
    /\ heap' = [heap EXCEPT ![pc[t].game_state].rounds_history =
                   Append(@, [round |-> heap[pc[t].game_state].round_number,
                              user_move |-> pc[t].user_move_enum,
                              bot_move |-> pc[t].bot_move_enum,
                              result |-> ThreadResult(t)])]
    /\ Goto(t, "return")
    /\ UNCHANGED <<mode, game_state, main_game_state, game_sessions, session,
                   call, ret, tally>>

\* play_round lines 144-180: game_over is set, the commentary is asked for and
\* the response is built
ThreadReturn(t) ==
    /\ At(t, "play_round", "return")
    /\ heap' = [heap EXCEPT ![pc[t].game_state].game_over =
                                IF heap[pc[t].game_state].round_number >= 3
                                THEN TRUE ELSE @]
    /\ ret' = [ret EXCEPT ![t] =
                  api_valid_response(heap'[pc[t].game_state], pc[t].user_move_enum,
                      pc[t].bot_move_enum,
                      api_commentary(heap'[pc[t].game_state], ThreadResult(t),
                                     get_ai_response(Answering, 0)))]
    /\ Goto(t, "done")
    /\ UNCHANGED <<mode, game_state, main_game_state, game_sessions, session,
                   call, tally>>

\* start_game lines 62-64: a new GameState is stored for the session id
ThreadStartStore(t) ==
    /\ At(t, "start_game", "enter")
    /\ heap' = Store(heap, NewObject(heap), GameState)
    /\ game_sessions' = Store(game_sessions, session[call[t].client], NewObject(heap))
    /\ pc' = [pc EXCEPT ![t].at = "return", ![t].game_state = NewObject(heap)]
    /\ UNCHANGED <<mode, game_state, main_game_state, session, call, ret, tally>>

\* start_game lines 66-79: the welcome is asked for and the response is built
ThreadStartReturn(t) ==
    /\ At(t, "start_game", "return")
    /\ ret' = [ret EXCEPT ![t] =
                  [op |-> "start_game", success |-> TRUE,
                   message |-> api_intro(get_ai_response(Answering, 0)),
                   state |-> to_dict(heap[pc[t].game_state])]]
    /\ Goto(t, "done")
    /\ UNCHANGED <<mode, heap, game_state, main_game_state, game_sessions, session,
                   call, tally>>

NextThreads ==
    \E t \in Threads :
        \/ GetOrCreateTest(t)
        \/ GetOrCreateStore(t)
        \/ GetOrCreateReturn(t)
        \/ ThreadValidate(t)
        \/ ThreadInvalidLoad(t)
        \/ ThreadInvalidStore(t)
        \/ ThreadInvalidReturn(t)
        \/ ThreadChoose(t)
        \/ ThreadScoreLoad(t)
        \/ ThreadScoreStore(t)
        \/ ThreadRoundLoad(t)
        \/ ThreadRoundStore(t)
        \/ ThreadAppend(t)
        \/ ThreadReturn(t)
        \/ ThreadStartStore(t)
        \/ ThreadStartReturn(t)

SpecThreads == InitThreads /\ [][NextThreads]_vars

----------------------------------------------------------------------------
(* The web application with two clients. Each has its own Flask session     *)
(* cookie, empty until the client asks for the index page; the routes under *)
(* /api never set 'session_id'.                                             *)

Visitors == {"c1", "c2"}

InitClients ==
    /\ mode = "web"
    /\ heap = <<>>
    /\ game_state = None
    /\ main_game_state = None
    /\ game_sessions = <<>>
    /\ session = [c \in Visitors |-> None]
    /\ pc = "serving"
    /\ tally = <<>>
    /\ call = [op |-> "none"]
    /\ ret = [op |-> "none"]

NextClients ==
    \/ \E c \in Visitors : Index(c)
    \/ \E c \in Visitors : StartGame(c)
    \/ \E c \in Visitors, move \in Inputs :
           TotalRounds < MaxClientRounds /\ PlayRound(c, move)
    \/ \E c \in Visitors : ResetGame(c)

SpecClients == InitClients /\ [][NextClients]_vars

----------------------------------------------------------------------------
(* get_ai_response called on its own, the language model doing on its       *)
(* successive calls any of the things it can do.                            *)

Replies == [1..MaxAttempts -> Attempt]

InitAi ==
    /\ mode = "ai"
    /\ heap = <<>>
    /\ game_state = None
    /\ main_game_state = None
    /\ game_sessions = <<>>
    /\ session = [c \in Clients |-> None]
    /\ pc = "ai"
    /\ tally = <<>>
    /\ call = [op |-> "none"]
    /\ \E answers \in Replies : ret = [op |-> "call", answers |-> answers]

\* get_ai_response(message)
GetAiResponse ==
    /\ mode = "ai" /\ ret.op = "call"
    /\ LET ai == get_ai_response(ret.answers, 0)
       IN  ret' = [op |-> "get_ai_response", answers |-> ret.answers,
                   raised |-> ai.raised, calls |-> ai.calls]
    /\ UNCHANGED <<mode, heap, game_state, main_game_state, game_sessions, session,
                   pc, tally, call>>

NextAi == GetAiResponse

SpecAi == InitAi /\ [][NextAi]_vars

----------------------------------------------------------------------------
(* The two implementations of a round side by side: play_round_tool on the  *)
(* session of the referee and the /api/play handler on the session of a     *)
(* client, each round with the same move string and the same outcomes of    *)
(* random.random() and random.choice().                                     *)

InitPaired ==
    /\ mode = "paired"
    /\ heap = [o \in {1} |-> GameState]
    /\ game_state = 1
    /\ main_game_state = 1
    /\ game_sessions = <<>>
    /\ session = [c \in Clients |-> None]
    /\ pc = "paired"
    /\ tally = [o \in {1} |-> NoTally]
    /\ call = [op |-> "none"]
    /\ ret = [op |-> "none"]

\* play_round_tool(user_move) and play_round() with data['move'] = user_move,
\* random.random() < 0.15 being roll and random.choice taking place i in both
PlayRoundPaired(move, roll, i) ==
    LET gs == heap[game_state]
        v == validate_move(move, gs.user_bomb_used)
        bot_move_enum == tool_available_moves(gs, roll)[i]
        \* get_or_create_game_state(session_id)
        session_id == session["c1"]
        created == session_id \notin DOMAIN game_sessions
        o == IF created THEN NewObject(heap) ELSE game_sessions[session_id]
        api_gs == IF created THEN GameState ELSE heap[o]
        api_v == validate_move(lower(move), api_gs.user_bomb_used)
        api_bot_move_enum == api_available_moves(api_gs, roll)[i]
        tool_after == IF v[1] THEN tool_valid_round(gs, v[2], bot_move_enum)
                      ELSE tool_invalid_round(gs)
        api_after == IF api_v[1] THEN api_valid_round(api_gs, api_v[2], api_bot_move_enum)
                     ELSE api_invalid_round(api_gs)
    IN  /\ mode = "paired"
        /\ gs.round_number < MaxPairedRounds
        /\ i \in DOMAIN tool_available_moves(gs, roll)
                   \cap DOMAIN api_available_moves(api_gs, roll)
        /\ game_sessions' = Store(game_sessions, session_id, o)
        /\ heap' = Store(Store(heap, game_state, tool_after), o, api_after)
        /\ ret' = [op |-> "paired",
                   tool |-> IF v[1] THEN tool_valid_return(tool_after, v[2], bot_move_enum)
                            ELSE tool_invalid_return(tool_after, move, v[3]),
                   api |-> IF api_v[1]
                           THEN api_valid_response(api_after, api_v[2], api_bot_move_enum,
                                    api_commentary(api_after,
                                        resolve_round(api_v[2], api_bot_move_enum),
                                        get_ai_response(Answering, 0)))
                           ELSE api_invalid_response(api_after, api_v[3])]
        /\ tally' = [x \in DOMAIN heap' |-> NoTally]
        /\ UNCHANGED <<mode, game_state, main_game_state, session, pc>>
        /\ call' = [op |-> "paired", input |-> move, roll |-> roll, choice |-> i,
                     before |-> gs]

NextPaired ==
    \E move \in Inputs, roll \in BOOLEAN, i \in 1..Cardinality(Move) :
        PlayRoundPaired(move, roll, i)

SpecPaired == InitPaired /\ [][NextPaired]_vars

----------------------------------------------------------------------------
(* The last call, as the claims speak of it. *)

\* The last call was a playRound: play_round_tool, or the /api/play handler.
IsPlayRound == call.op \in {"play_round_tool", "play_round"}

\* The last call was an explicit reset or start.
IsReset == call.op \in {"reset_game_tool", "start_game", "reset_game"}

\* The session the last call worked on, as later calls find it: through the
\* global of referee_agent, or through game_sessions and the client's session id.
Current ==
    IF mode = "cli" THEN heap[game_state]
    ELSE heap[game_sessions[session[call.client]]]

\* The move string the last playRound gave to validate_move.
Validated == IF call.op = "play_round" THEN lower(call.input) ELSE call.input

\* The last playRound was given an input that fails validation.
IsInvalidRound ==
    IsPlayRound /\ ~validate_move(Validated, call.before.user_bomb_used)[1]

----------------------------------------------------------------------------
(* C1: after any sequence of playRound calls, in any mix of valid and       *)
(* invalid inputs, the round_number of a session is at most 3.              *)
C1_RoundNumberAtMostThree ==
    \A o \in DOMAIN heap : heap[o].round_number <= 3

(* C2: once game_over is true for a session, a playRound call leaves its    *)
(* round_number, scores, bomb flags and history unchanged.                  *)
C2_NoRoundAfterGameOver ==
    IsPlayRound /\ call.before.game_over =>
        /\ Current.round_number = call.before.round_number
        /\ Current.user_score = call.before.user_score
        /\ Current.bot_score = call.before.bot_score
        /\ Current.user_bomb_used = call.before.user_bomb_used
        /\ Current.bot_bomb_used = call.before.bot_bomb_used
        /\ Current.rounds_history = call.before.rounds_history

(* C3: game_over is false in every state with round_number below 3, is set  *)
(* by the playRound call, valid or invalid, that brings round_number to 3,  *)
(* and then stays true until a reset or start replaces the session.         *)
C3_GameOverExactlyAtThree ==
    /\ \A o \in DOMAIN heap : heap[o].game_over <=> heap[o].round_number >= 3
    /\ IsPlayRound /\ Current.round_number = 3 =>
           ~call.before.game_over /\ Current.game_over /\ ret.game_over
    /\ IsPlayRound /\ call.before.game_over => Current.game_over

\* A session is over right after the invalid attempt that was its third round.
C3_Witness ==
    /\ IsInvalidRound
    /\ call.before.round_number = 2 /\ ~call.before.game_over
    /\ Current.round_number = 3 /\ Current.game_over
    /\ Len(Current.rounds_history) = 2

(* C4: user_score + bot_score + the draw rounds + the invalid attempts is    *)
(* the round_number of the session, after any sequence of playRound calls.  *)
C4_AttemptsAddUp ==
    \A o \in DOMAIN heap :
        heap[o].user_score + heap[o].bot_score + tally[o].draw + tally[o].invalid
            = heap[o].round_number

\* A session that has seen a win of each side, a draw and an invalid attempt.
C4_Witness ==
    \E o \in DOMAIN heap :
        /\ heap[o].user_score >= 1 /\ heap[o].bot_score >= 1
        /\ tally[o].draw >= 1 /\ tally[o].invalid >= 1

\* The strings that name the bomb once lower-cased and stripped.
BombStrings ==
    { s \in Inputs \cup LogicInputs : MoveOfValue(strip(lower(s))) = "bomb" }

\* validate_move rejects every spelling of the bomb when the user's flag is set.
BombIsRejected ==
    \A s \in BombStrings :
        validate_move(s, TRUE) = <<FALSE, None, BombUsedMessage>>

(* C5: once a bomb flag is true no playRound call sets it back to false;     *)
(* from then on validating the user's "bomb" fails with the bomb-already-   *)
(* used error, and a playRound call given that input still consumes the     *)
(* round: round_number goes up by 1.                                        *)
C5_BombFlagIsPermanent ==
    /\ \A o \in DOMAIN heap : heap[o].user_bomb_used => BombIsRejected
    /\ IsPlayRound =>
           /\ call.before.user_bomb_used => Current.user_bomb_used
           /\ call.before.bot_bomb_used => Current.bot_bomb_used
    /\ IsPlayRound /\ call.before.user_bomb_used /\ call.input \in BombStrings =>
           /\ Current.round_number = call.before.round_number + 1
           /\ IF call.op = "play_round_tool"
              THEN ret.result = "invalid" /\ ret.error_message = BombUsedMessage
              ELSE ~ret.success /\ ret.error = BombUsedMessage

\* The user's second bomb has just been rejected, and the round was counted.
C5_Witness ==
    /\ IsPlayRound
    /\ call.input \in BombStrings
    /\ call.before.user_bomb_used
    /\ Len(call.before.rounds_history) = 1
    /\ Current.round_number = 2
    /\ Current.user_bomb_used

\* The rounds of a history in which the user, or the bot, played the bomb.
UserBombRounds(h) == { i \in DOMAIN h : h[i].user_move = "bomb" }

BotBombRounds(h) == { i \in DOMAIN h : h[i].bot_move = "bomb" }

(* C6: the history of a session holds at most one record with the user's    *)
(* bomb and at most one with the bot's; a side's bomb flag is true exactly  *)
(* when the history holds a record of that side's bomb; and the bot's       *)
(* candidate moves never contain the bomb once bot_bomb_used is true.       *)
C6_BombIsSingleUse ==
    \A o \in DOMAIN heap :
        LET h == heap[o].rounds_history
        IN  /\ Cardinality(UserBombRounds(h)) <= 1
            /\ Cardinality(BotBombRounds(h)) <= 1
            /\ heap[o].user_bomb_used <=> UserBombRounds(h) # {}
            /\ heap[o].bot_bomb_used <=> BotBombRounds(h) # {}
            /\ heap[o].bot_bomb_used =>
                   \A roll \in BOOLEAN :
                       /\ \A i \in DOMAIN tool_available_moves(heap[o], roll) :
                              tool_available_moves(heap[o], roll)[i] # "bomb"
                       /\ \A i \in DOMAIN api_available_moves(heap[o], roll) :
                              api_available_moves(heap[o], roll)[i] # "bomb"

\* Both sides have played their bomb, in different rounds, and rounds followed.
C6_Witness ==
    \E o \in DOMAIN heap :
        LET h == heap[o].rounds_history
        IN  /\ heap[o].user_bomb_used /\ heap[o].bot_bomb_used
            /\ UserBombRounds(h) # BotBombRounds(h)
            /\ Len(h) >= 3
            /\ h[Len(h)].user_move # "bomb" /\ h[Len(h)].bot_move # "bomb"

(* C7: a playRound call whose input fails validation adds 1 to round_number *)
(* and changes nothing else but possibly game_over: no bot move is chosen,  *)
(* no record is appended, scores and bomb flags are unchanged, and the      *)
(* returned outcome is marked invalid.                                      *)
C7_InvalidRoundFrame ==
    IsInvalidRound =>
        /\ Current.round_number = call.before.round_number + 1
        /\ Current.user_score = call.before.user_score
        /\ Current.bot_score = call.before.bot_score
        /\ Current.user_bomb_used = call.before.user_bomb_used
        /\ Current.bot_bomb_used = call.before.bot_bomb_used
        /\ Current.rounds_history = call.before.rounds_history
        /\ call.before.game_over => Current.game_over
        /\ IF call.op = "play_round_tool"
           THEN /\ ret.result = "invalid"
                /\ ret.bot_move = None
                /\ ret.round_number = Current.round_number
           ELSE /\ ~ret.success
                /\ "bot_move" \notin DOMAIN ret
                /\ ret.round = Current.round_number

\* An unknown move has just been rejected in a session that has a history.
C7_Witness ==
    /\ IsInvalidRound
    /\ call.op = "play_round"
    /\ MoveOfValue(strip(Validated)) = "ValueError"
    /\ Len(call.before.rounds_history) = 2
    /\ call.before.user_score + call.before.bot_score >= 1
    /\ Current.round_number = 3

(* C8: the length of the history is round_number minus the invalid attempts, *)
(* and a playRound call leaves the records it finds unchanged and in order, *)
(* adding at most one record at the end.                                    *)
C8_HistoryIsAppendOnly ==
    /\ \A o \in DOMAIN heap :
           Len(heap[o].rounds_history) = heap[o].round_number - tally[o].invalid
    /\ IsPlayRound =>
           LET h == call.before.rounds_history
               g == Current.rounds_history
           IN  \/ g = h
               \/ Len(g) = Len(h) + 1 /\ SubSeq(g, 1, Len(h)) = h

\* A record has just been added after a record and an invalid attempt.
C8_Witness ==
    /\ IsPlayRound
    /\ Len(call.before.rounds_history) = 1
    /\ call.before.round_number = 2
    /\ Len(Current.rounds_history) = 2
    /\ Current.rounds_history[1].round = 1 /\ Current.rounds_history[2].round = 3

\* The rule table: the pairs (winner's move, loser's move).
Beats ==
    { <<"rock", "scissors">>, <<"scissors", "paper">>, <<"paper", "rock">>,
      <<"bomb", "rock">>, <<"bomb", "paper">>, <<"bomb", "scissors">> }

RuleTable(user_move, bot_move) ==
    IF user_move = bot_move THEN "draw"
    ELSE IF <<user_move, bot_move>> \in Beats THEN "user_win"
    ELSE IF <<bot_move, user_move>> \in Beats THEN "bot_win"
    ELSE "undefined"

(* C9: resolve_round agrees with the rule table on all 16 pairs of moves:    *)
(* equal moves draw, the bomb beats every other move, rock beats scissors,  *)
(* scissors beats paper and paper beats rock.                               *)
C9_ResolveRoundFollowsTheRules ==
    ret.op = "resolve_round" =>
        /\ ret.user_move \in Move /\ ret.bot_move \in Move
        /\ ret.result = RuleTable(ret.user_move, ret.bot_move)

\* The bot's bomb has beaten the user's scissors.
C9_Witness ==
    /\ ret.op = "resolve_round"
    /\ ret.user_move = "scissors" /\ ret.bot_move = "bomb"
    /\ ret.result = "bot_win"

(* C10: after any sequence of rounds, reset_game_tool, /api/reset and        *)
(* /api/start leave the session that later calls operate on with            *)
(* round_number, user_score and bot_score 0, both bomb flags and game_over  *)
(* false, and an empty history.                                             *)
C10_ResetGivesANewSession ==
    IsReset =>
        /\ mode = "web" => session[call.client] \in DOMAIN game_sessions
        /\ Current.round_number = 0
        /\ Current.user_score = 0
        /\ Current.bot_score = 0
        /\ ~Current.user_bomb_used
        /\ ~Current.bot_bomb_used
        /\ ~Current.game_over
        /\ Current.rounds_history = <<>>

\* The referee has been reset after a finished game.
C10_Witness ==
    /\ call.op = "reset_game_tool"
    /\ main_game_state # game_state
    /\ heap[main_game_state].game_over
    /\ heap[main_game_state].round_number = 3
    /\ heap[game_state].round_number = 0

\* The spellings of a move name that parsing is to take alike: the name, the
\* name in capitals, and the name between two spaces.
Spellings(m) ==
    { ValueOfMove(m), upper(ValueOfMove(m)), <<" ">> \o ValueOfMove(m) \o <<" ">> }

(* C15: with the bomb flag false, validate_move returns the same parsed     *)
(* move for a legal move name, for the name upper-cased and for the name    *)
(* with a leading and a trailing space: the move of that name.              *)
C15_ParsingIgnoresCaseAndSpace ==
    ret.op = "validate_move" /\ ~ret.player_bomb_used =>
        \A m \in Move :
            ret.move \in Spellings(m) =>
                /\ ret.is_valid
                /\ ret.parsed_move = m
                /\ ret.error_message = NoMessage

\* The capitals of a move name have been parsed to the move.
C15_Witness ==
    /\ ret.op = "validate_move" /\ ~ret.player_bomb_used
    /\ ret.move = <<"S","C","I","S","S","O","R","S">>
    /\ ret.is_valid /\ ret.parsed_move = "scissors"

\* What validate_move is given, trimmed and lower-cased.
Normalized == strip(lower(ret.move))

\* The trimmed, lower-cased input is one of the four move names.
IsMoveName == \E m \in Move : Normalized = ValueOfMove(m)

(* C19: validate_move gives exactly one of three outcomes: the unknown-move *)
(* error, listing rock, paper, scissors and bomb, when the trimmed and      *)
(* lower-cased input is no move name; the bomb-already-used error when it   *)
(* is "bomb" and the player's bomb flag is true; otherwise valid, with the  *)
(* parsed move and an empty error message. The result is always a           *)
(* structured triple.                                                       *)
C19_ValidateMoveClassifies ==
    ret.op = "validate_move" =>
        /\ ret.is_valid \in BOOLEAN
        /\ ret.parsed_move \in Move \cup {None}
        /\ IF ~IsMoveName
           THEN /\ ~ret.is_valid /\ ret.parsed_move = None
                /\ ret.error_message.text =
                       "Invalid move '{move}'. Valid moves: rock, paper, scissors, bomb"
                /\ ret.error_message.move = ret.move
           ELSE IF Normalized = ValueOfMove("bomb") /\ ret.player_bomb_used
           THEN /\ ~ret.is_valid /\ ret.parsed_move = None
                /\ ret.error_message.text = "Bomb has already been used this game"
           ELSE /\ ret.is_valid
                /\ Normalized = ValueOfMove(ret.parsed_move)
                /\ ret.error_message.text = ""

\* The empty string has been classified as an unknown move.
C19_Witness ==
    /\ ret.op = "validate_move"
    /\ ret.move = <<>>
    /\ ~ret.is_valid /\ ret.parsed_move = None
    /\ ret.error_message = InvalidMoveMessage(<<>>)

\* The winner the scores call for.
WinnerByScores(user_score, bot_score) ==
    IF user_score > bot_score THEN "user"
    ELSE IF bot_score > user_score THEN "bot"
    ELSE "draw"

(* C16: determine_game_winner gives "user" when user_score > bot_score,     *)
(* "bot" when bot_score > user_score and "draw" when they are equal, for    *)
(* every session, over or not, whatever its round_number, bomb flags and    *)
(* history; the calls made of it, for the winner of the /api/play response  *)
(* and for run_game's final report, give that value and leave the session  *)
(* as it was.                                                               *)
C16_WinnerIsAFunctionOfTheScores ==
    /\ \A o \in DOMAIN heap :
           determine_game_winner(heap[o])
               = WinnerByScores(heap[o].user_score, heap[o].bot_score)
    /\ call.op = "play_round" /\ ret.success /\ ret.game_over =>
           /\ ret.winner = WinnerByScores(Current.user_score, Current.bot_score)
           /\ ret.state = to_dict(Current)
    /\ ret.op = "run_game" /\ ret.printed = "game over" =>
           /\ ret.winner = WinnerByScores(heap[main_game_state].user_score,
                                          heap[main_game_state].bot_score)
           /\ ret.user_score = heap[main_game_state].user_score
           /\ ret.bot_score = heap[main_game_state].bot_score

\* The bot is ahead in a session that is not over and has seen a bomb.
C16_Witness ==
    \E o \in DOMAIN heap :
        /\ ~heap[o].game_over
        /\ heap[o].bot_score > heap[o].user_score
        /\ heap[o].user_bomb_used
        /\ determine_game_winner(heap[o]) = "bot"

\* The last playRound was given an input that passes validation.
IsValidRound == IsPlayRound /\ ~IsInvalidRound

\* The move the last playRound's input was parsed to.
PlayedMove == validate_move(Validated, call.before.user_bomb_used)[2]

(* C18: a playRound call with a valid move adds 1 to round_number; adds 1   *)
(* to the winner's score on user_win or bot_win and to neither on a draw;   *)
(* appends one record whose round is the new round_number and whose moves   *)
(* and result are the ones played and resolved; sets the bomb flag of       *)
(* whichever side played the bomb; and returns these updated values.        *)
C18_ValidRoundEffect ==
    IsValidRound =>
        LET b == call.before
            c == Current
            rec == c.rounds_history[Len(c.rounds_history)]
        IN  /\ c.round_number = b.round_number + 1
            /\ Len(c.rounds_history) = Len(b.rounds_history) + 1
            /\ SubSeq(c.rounds_history, 1, Len(b.rounds_history)) = b.rounds_history
            /\ rec.round = c.round_number
            /\ rec.user_move = PlayedMove
            /\ rec.bot_move \in Move
            /\ rec.result = RuleTable(rec.user_move, rec.bot_move)
            /\ c.user_score = b.user_score + (IF rec.result = "user_win" THEN 1 ELSE 0)
            /\ c.bot_score = b.bot_score + (IF rec.result = "bot_win" THEN 1 ELSE 0)
            /\ c.user_bomb_used <=> (b.user_bomb_used \/ rec.user_move = "bomb")
            /\ c.bot_bomb_used <=> (b.bot_bomb_used \/ rec.bot_move = "bomb")
            /\ ret.user_move = rec.user_move /\ ret.bot_move = rec.bot_move
            /\ ret.result = rec.result
            /\ ret.user_score = c.user_score /\ ret.bot_score = c.bot_score
            /\ ret.user_bomb_used = c.user_bomb_used
            /\ ret.bot_bomb_used = c.bot_bomb_used
            /\ ret.game_over = c.game_over
            /\ IF call.op = "play_round_tool"
               THEN ret.round_number = c.round_number
               ELSE ret.success /\ ret.round = c.round_number

\* The user's bomb has just won the second round, after an invalid attempt.
C18_Witness ==
    /\ IsValidRound
    /\ call.before.round_number = 1 /\ call.before.rounds_history = <<>>
    /\ PlayedMove = "bomb"
    /\ Current.round_number = 2
    /\ Current.user_score = 1
    /\ Current.rounds_history[1].round = 2
    /\ Current.rounds_history[1].result = "user_win"

(* C20: in the command-line referee, the session whose game_over run_game's *)
(* loop tests, and whose scores its final report prints, is the session the *)
(* tools update: also after a reset_game tool call and the play_round calls *)
(* that follow it.                                                          *)
C20_LoopSeesTheToolsSession ==
    mode = "cli" =>
        /\ heap[main_game_state].game_over <=> heap[game_state].game_over
        /\ heap[main_game_state].user_score = heap[game_state].user_score
        /\ heap[main_game_state].bot_score = heap[game_state].bot_score

(* C11: a validate_move call, for any input and any session state, valid or *)
(* not, leaves round_number, the scores, the bomb flags, game_over and the  *)
(* history of the session unchanged.                                        *)
C11_ValidateMoveIsPure ==
    call.op = "validate_move_tool" =>
        /\ heap[game_state].round_number = call.before.round_number
        /\ heap[game_state].user_score = call.before.user_score
        /\ heap[game_state].bot_score = call.before.bot_score
        /\ heap[game_state].user_bomb_used = call.before.user_bomb_used
        /\ heap[game_state].bot_bomb_used = call.before.bot_bomb_used
        /\ heap[game_state].game_over = call.before.game_over
        /\ heap[game_state].rounds_history = call.before.rounds_history
        /\ ret.current_state = to_dict(call.before)
        /\ ret.is_valid = validate_move(call.input, call.before.user_bomb_used)[1]

\* A second bomb has been validated, and rejected, in a session at round 2.
C11_Witness ==
    /\ call.op = "validate_move_tool"
    /\ call.input \in BombStrings
    /\ call.before.user_bomb_used /\ call.before.round_number = 2
    /\ ~ret.is_valid
    /\ heap[game_state] = call.before

\* The scores of a session together.
Points(gs) == gs.user_score + gs.bot_score

(* C12: whether the language model answers at once, answers after retries  *)
(* or fails every time, the round of a /api/play request or of a            *)
(* play_round tool call is applied exactly once: round_number is one more   *)
(* than the call found, a valid round has added exactly one record and at   *)
(* most one point, an invalid one no record and no point.                   *)
C12_RoundAppliedOnceWhateverTheModelDoes ==
    IsPlayRound =>
        LET b == call.before
            c == Current
            added == IF IsInvalidRound THEN 0 ELSE 1
        IN  /\ c.round_number = b.round_number + 1
            /\ Len(c.rounds_history) = Len(b.rounds_history) + added
            /\ SubSeq(c.rounds_history, 1, Len(b.rounds_history)) = b.rounds_history
            /\ Points(c) \in { Points(b) + k : k \in 0..added }
            /\ added = 1 =>
                   /\ c.rounds_history[Len(c.rounds_history)].round = c.round_number
                   /\ Points(c) = Points(b) + 1
                          <=> c.rounds_history[Len(c.rounds_history)].result # "draw"

\* A round that was won or lost stands though the language model failed three times.
C12_Witness ==
    /\ call.op = "play_round" /\ IsValidRound
    /\ call.ai.raised /\ call.ai.calls = MaxRetries + 1
    /\ call.before.round_number = 1
    /\ Current.round_number = 2
    /\ Points(Current) = Points(call.before) + 1

\* The canned commentary for a result.
CannedText(result) ==
    CASE result = "user_win" -> "You win round {round_number}!"
      [] result = "bot_win" -> "I win round {round_number}!"
      [] result = "draw" -> "Round {round_number} is a draw!"

(* C17: when the call of the language model raises, after any retries,      *)
(* /api/start still answers with success and the canned welcome, and        *)
(* /api/play for a valid move still answers with success, the outcome of    *)
(* the round, and the canned commentary of the round's result.              *)
C17_CommentaryToleratesUnavailability ==
    /\ call.op = "start_game" /\ call.ai.raised =>
           /\ ret.success
           /\ ret.message
                  = "Welcome to Rock-Paper-Scissors-Plus! Ready to play? Best of 3 rounds!"
           /\ ret.state = to_dict(GameState)
           /\ Current = GameState
    /\ call.op = "play_round" /\ call.ai.raised =>
           LET rec == Current.rounds_history[Len(Current.rounds_history)]
           IN  /\ IsValidRound
               /\ ret.success
               /\ ret.round = Current.round_number
               /\ ret.user_move = rec.user_move /\ ret.bot_move = rec.bot_move
               /\ ret.result = rec.result
               /\ ret.result \in {"user_win", "bot_win", "draw"}
               /\ ret.user_score = Current.user_score
               /\ ret.bot_score = Current.bot_score
               /\ ret.state = to_dict(Current)
               /\ ret.commentary.text = CannedText(ret.result)
               /\ ret.commentary.round = Current.round_number

\* The bot's win has been reported with the canned text, the model having failed at once.
C17_Witness ==
    /\ call.op = "play_round" /\ call.ai.raised /\ call.ai.calls = 1
    /\ ret.success /\ ret.result = "bot_win"
    /\ ret.commentary = [text |-> "I win round {round_number}!", round |-> 2]

\* The sessions a /api/play with the given move can leave a session in.
PlayedAlone(gs, move) ==
    LET v == validate_move(lower(move), gs.user_bomb_used)
    IN  IF ~v[1] THEN {api_invalid_round(gs)}
        ELSE { api_valid_round(gs, v[2], bot_move_enum) :
                   bot_move_enum \in api_bot_moves(gs) }

\* What game_sessions can hold for the client after the request, served alone,
\* has found one of S, each the sessions held for the client: one or none.
ServedAlone(S, request) ==
    IF request.op = "start_game" THEN {<<GameState>>}
    ELSE { <<gs>> : gs \in UNION { PlayedAlone(IF found = <<>> THEN GameState ELSE found[1],
                                               request.input) : found \in S } }

\* The same after two requests served one after the other.
ServedInTurn(first, second) ==
    ServedAlone(ServedAlone({first.before}, first), second)

\* Both threads have sent their response.
BothDone == mode = "threads" /\ \A t \in Threads : pc[t].at = "done"

(* C13: two overlapping requests of one session id, /api/play and /api/play *)
(* or /api/play and /api/start, leave the session as serving them one after *)
(* the other, in one of the two orders, would: no increment of round_number *)
(* or of a score is lost, no two records have the same round index, and a   *)
(* /api/play not overtaken by a /api/start has worked on the session that   *)
(* game_sessions holds.                                                     *)
C13_OverlappingRequestsAreSerialised ==
    BothDone =>
        LET stored == heap[game_sessions[session["c1"]]]
            h == stored.rounds_history
        IN  /\ <<stored>> \in ServedInTurn(call[1], call[2]) \cup ServedInTurn(call[2], call[1])
            /\ \A i, j \in DOMAIN h : h[i].round = h[j].round => i = j
            /\ (\A t \in Threads : call[t].op = "play_round") =>
                   \A t \in Threads : pc[t].game_state = game_sessions[session["c1"]]

\* The sessions a request of client c would find under its session id: one or none.
Observed(c) ==
    IF session[c] \in DOMAIN game_sessions
    THEN <<heap[game_sessions[session[c]]]>>
    ELSE <<>>

(* C14: sessions are not shared across clients: a request of one client,    *)
(* /api/start, /api/play or /api/reset, leaves what every other client      *)
(* finds under its own session id as it was, also for clients that were     *)
(* never given a session id by the index page.                              *)
C14_SessionsAreNotShared ==
    [][\A c \in Visitors : c # call'.client => Observed(c)' = Observed(c)]_vars

(* C22: resolve_round is antisymmetric and never yields invalid: for all    *)
(* moves a and b, resolve_round(a, b) is user_win exactly when              *)
(* resolve_round(b, a) is bot_win, it is draw exactly when a = b, and it is *)
(* always one of user_win, bot_win and draw.                                *)
C22_ResolveRoundIsAntisymmetric ==
    ret.op = "resolve_round" =>
        LET a == ret.user_move
            b == ret.bot_move
        IN  /\ ret.result \in {"user_win", "bot_win", "draw"}
            /\ ret.result = "user_win" <=> resolve_round(b, a) = "bot_win"
            /\ ret.result = "bot_win" <=> resolve_round(b, a) = "user_win"
            /\ ret.result = "draw" <=> a = b

\* Paper has beaten rock, and rock against paper is the bot's win.
C22_Witness ==
    /\ ret.op = "resolve_round"
    /\ ret.user_move = "paper" /\ ret.bot_move = "rock"
    /\ ret.result = "user_win"
    /\ resolve_round("rock", "paper") = "bot_win"

(* C23: get_ai_response ends after at most 3 calls of the language model:   *)
(* it calls again only after a failure that says RESOURCE_EXHAUSTED and     *)
(* while fewer than 2 retries were made, it returns the text of the first   *)
(* call that answers, and any other failure is raised to the caller with no *)
(* further call.                                                            *)
C23_AtMostThreeAttempts ==
    ret.op = "get_ai_response" =>
        /\ ret.calls \in 1..3
        /\ \A i \in 1..(ret.calls - 1) : ret.answers[i] = "RESOURCE_EXHAUSTED"
        /\ ~ret.raised <=> ret.answers[ret.calls] = "text"
        /\ ret.raised =>
               \/ ret.answers[ret.calls] = "error"
               \/ ret.answers[ret.calls] = "RESOURCE_EXHAUSTED" /\ ret.calls = 3

\* Another error after one retry has been raised, though the next call would answer.
C23_Witness ==
    /\ ret.op = "get_ai_response"
    /\ ret.answers = <<"RESOURCE_EXHAUSTED", "error", "text", "text">>
    /\ ret.raised /\ ret.calls = 2

\* The result tag of what a round returned: the result of the dict the tool
\* returns, and for the response of /api/play its result, or invalid when the
\* response says success: False and carries no result.
ResultTag(r) ==
    IF "success" \in DOMAIN r /\ ~r.success THEN "invalid" ELSE r.result

(* C21: the two implementations of a round are equivalent on the session:   *)
(* from equal sessions, with the same input string and the same choice of   *)
(* the opponent, play_round_tool and the /api/play handler leave equal      *)
(* sessions (round_number, scores, bomb flags, game_over, history) and      *)
(* return equal result tags, after every sequence of rounds.                *)
C21_ToolAndApiRoundsAgree ==
    call.op = "paired" =>
        LET tool == heap[game_state]
            api == heap[game_sessions[session["c1"]]]
        IN  /\ tool = api
            /\ ResultTag(ret.tool) = ResultTag(ret.api)
            /\ ret.tool.round_number = ret.api.round
            /\ ret.tool.game_over = ret.api.game_over
            /\ ResultTag(ret.tool) # "invalid" =>
                   /\ ret.tool.user_move = ret.api.user_move
                   /\ ret.tool.bot_move = ret.api.bot_move
                   /\ ret.tool.user_score = ret.api.user_score
                   /\ ret.tool.bot_score = ret.api.bot_score

\* Both implementations have rejected the user's second bomb as the third round
\* of a game in which the bot had played its bomb as well.
C21_Witness ==
    /\ call.op = "paired"
    /\ call.input = <<" ","B","O","M","B","\n">>
    /\ call.before.user_bomb_used /\ call.before.bot_bomb_used
    /\ ResultTag(ret.tool) = "invalid" /\ ResultTag(ret.api) = "invalid"
    /\ heap[game_state].round_number = 3
    /\ heap[game_sessions[session["c1"]]].game_over
    /\ Len(heap[game_sessions[session["c1"]]].rounds_history) = 2

====
